---- MODULE Spec2Model ----
(***************************************************************************)
(* Model of package ses (src/ses.go, current copy, lines 130-289): the     *)
(* three send operations build a url.Values form, sesPost creates and      *)
(* signs one POST request, hands it to the injected HTTPClient and maps    *)
(* the transport outcome to (result, error).                               *)
(*                                                                         *)
(* One call is followed from entry to return.  The transport is the        *)
(* environment: its answer to Do is a nondeterministic choice.             *)
(***************************************************************************)
EXTENDS Integers, Sequences, FiniteSets, TLC

(***************************************************************************)
(* Bounds of the model.                                                    *)
(***************************************************************************)
MaxRecipients == 2      \* longest to / cc / bcc list
MaxRawLen == 4          \* longest raw message, in bytes
MaxLongList == 10       \* longest to list of the sends with two-digit positions
NumCallers == 2         \* concurrent callers on one Config

(***************************************************************************)
(* Program constants.                                                      *)
(***************************************************************************)
StatusOK == 200         \* http.StatusOK

Nil == "<nil>"          \* the nil error

\* A time.Time in UTC; weekday 0 is Sunday.
NoTime == [year |-> 0, month |-> 0, day |-> 0, hour |-> 0, minute |-> 0, second |-> 0,
           weekday |-> 0]

\* An *http.Request: method, URL, the headers sesPost and the signer set
\* ("" for a header that is not set) and the body.  SignedPayload and
\* SignedTime record the body and the time the signer was given.
NoReq == [Method |-> "", URL |-> "", ContentType |-> "", Date |-> "", XAmzDate |-> "",
          Authorization |-> "", Body |-> "", SignedPayload |-> "", SignedTime |-> NoTime]

(***************************************************************************)
(* Input domains.                                                          *)
(***************************************************************************)
GoodEndpoint == "https://email.us-east-1.amazonaws.com"
BadEndpoint == "://email.us-east-1.amazonaws.com"

\* The transport of EnvConfig (line 175); a Config built without one has a
\* nil HTTPClient.
DefaultClient == "http.DefaultClient"

\* Config values a caller can construct (Config has no constructor: every
\* field is caller supplied, and any of them can be left at its zero value).
Configs ==
    { [Endpoint |-> e, Region |-> "us-east-1", AccessKeyID |-> k, SecretAccessKey |-> s,
       HTTPClient |-> h] :
        e \in {GoodEndpoint, BadEndpoint}, k \in {"AKID", ""}, s \in {"secret", ""},
        h \in {DefaultClient, Nil} }

Addresses == {"b@x.com", "c@x.com"}
Froms == {"a@x.com"}
Subjects == {"amazon SES text test"}
TextBodies == {"This is an example email body"}
HTMLBodies == {"<p>This is an example email body</p>"}
Bytes == {0, 77, 255}

\* Instants time.Now().UTC() can return.
Times ==
    { [year |-> 2026, month |-> 10, day |-> 29, hour |-> 16, minute |-> 31, second |-> 5,
       weekday |-> 4],
      [year |-> 2020, month |-> 2, day |-> 9, hour |-> 7, minute |-> 4, second |-> 59,
       weekday |-> 0] }

SeqsUpTo(S, n) == UNION { [1..k -> S] : k \in 0..n }
RecipientLists == SeqsUpTo(Addresses, MaxRecipients)
RawMessages == SeqsUpTo(Bytes, MaxRawLen)

\* What the transport can answer to one Do call: an error and no response,
\* or a response with a status code and a body whose read succeeds or fails.
\* Do returns the error or the head of the response (DoResults); the body
\* arrives when sesPost reads it (BodyReads).
Statuses == {200, 204, 400}
ResponseBodies == {"<SendEmailResponse>ok</SendEmailResponse>", "{\"error\":\"message failed\"}"}
TransportErrors == {"dial tcp: connection refused"}
ReadErrors == {"unexpected EOF"}

NoOutcome == [err |-> Nil, hasResp |-> FALSE, StatusCode |-> 0, Body |-> "", readErr |-> Nil]
Outcomes ==
    { [err |-> e, hasResp |-> FALSE, StatusCode |-> 0, Body |-> "", readErr |-> Nil] :
        e \in TransportErrors }
    \cup
    { [err |-> Nil, hasResp |-> TRUE, StatusCode |-> sc, Body |-> b, readErr |-> re] :
        sc \in Statuses, b \in ResponseBodies, re \in {Nil} \cup ReadErrors }

DoResults ==
    { [err |-> e, hasResp |-> FALSE, StatusCode |-> 0, Body |-> "", readErr |-> Nil] :
        e \in TransportErrors }
    \cup
    { [err |-> Nil, hasResp |-> TRUE, StatusCode |-> sc, Body |-> "", readErr |-> Nil] :
        sc \in Statuses }

BodyReads(resp) ==
    { [resp EXCEPT !.Body = b, !.readErr = re] :
        b \in ResponseBodies, re \in {Nil} \cup ReadErrors }

(***************************************************************************)
(* fmt.Sprintf("%d", n) for n >= 0.                                        *)
(***************************************************************************)
Digits == <<"0", "1", "2", "3", "4", "5", "6", "7", "8", "9">>

RECURSIVE Itoa(_)
Itoa(n) == IF n < 10 THEN Digits[n + 1]
           ELSE Itoa(n \div 10) \o Digits[(n % 10) + 1]

(***************************************************************************)
(* base64.StdEncoding.EncodeToString: standard alphabet, '=' padding.      *)
(***************************************************************************)
encodeStd ==
    << "A","B","C","D","E","F","G","H","I","J","K","L","M","N","O","P",
       "Q","R","S","T","U","V","W","X","Y","Z","a","b","c","d","e","f",
       "g","h","i","j","k","l","m","n","o","p","q","r","s","t","u","v",
       "w","x","y","z","0","1","2","3","4","5","6","7","8","9","+","/" >>

\* base64.RawStdEncoding: the same alphabet without padding.
RECURSIVE EncodeChars_NoPadding(_)
EncodeChars_NoPadding(raw) ==
    IF Len(raw) = 0 THEN <<>>
    ELSE IF Len(raw) = 1 THEN
        << encodeStd[(raw[1] \div 4) + 1],
           encodeStd[((raw[1] % 4) * 16) + 1] >>
    ELSE IF Len(raw) = 2 THEN
        << encodeStd[(raw[1] \div 4) + 1],
           encodeStd[((raw[1] % 4) * 16 + raw[2] \div 16) + 1],
           encodeStd[((raw[2] % 16) * 4) + 1] >>
    ELSE
        << encodeStd[(raw[1] \div 4) + 1],
           encodeStd[((raw[1] % 4) * 16 + raw[2] \div 16) + 1],
           encodeStd[((raw[2] % 16) * 4 + raw[3] \div 64) + 1],
           encodeStd[(raw[3] % 64) + 1] >>
        \o EncodeChars_NoPadding(SubSeq(raw, 4, Len(raw)))

RECURSIVE EncodeChars(_)
EncodeChars(raw) ==
    IF Len(raw) = 0 THEN <<>>
    ELSE IF Len(raw) = 1 THEN
        << encodeStd[(raw[1] \div 4) + 1],
           encodeStd[((raw[1] % 4) * 16) + 1],
           "=", "=" >>
    ELSE IF Len(raw) = 2 THEN
        << encodeStd[(raw[1] \div 4) + 1],
           encodeStd[((raw[1] % 4) * 16 + raw[2] \div 16) + 1],
           encodeStd[((raw[2] % 16) * 4) + 1],
           "=" >>
    ELSE
        << encodeStd[(raw[1] \div 4) + 1],
           encodeStd[((raw[1] % 4) * 16 + raw[2] \div 16) + 1],
           encodeStd[((raw[2] % 16) * 4 + raw[3] \div 64) + 1],
           encodeStd[(raw[3] % 64) + 1] >>
        \o EncodeChars(SubSeq(raw, 4, Len(raw)))

RECURSIVE JoinChars(_)
JoinChars(cs) == IF Len(cs) = 0 THEN "" ELSE cs[1] \o JoinChars(Tail(cs))

EncodeToString(raw) == JoinChars(EncodeChars(raw))

(***************************************************************************)
(* url.Values: a map from field name to the list of its values.            *)
(***************************************************************************)
\* The map handed out is one that an earlier call has already used.
EmptyValues_Reused == ("Destination.CcAddresses.member.1" :> <<"c@x.com">>)

\* make(url.Values): a fresh, empty map.
EmptyValues == [k \in {} |-> <<>>]

\* url.Values.Add: append the value to the key's list.
Add(data, key, value) ==
    IF key \in DOMAIN data
    THEN [data EXCEPT ![key] = Append(@, value)]
    ELSE data @@ (key :> <<value>>)

\* url.Values.Get: first value of the key, "" when absent.
Get(data, key) ==
    IF key \in DOMAIN data /\ Len(data[key]) > 0 THEN data[key][1] ELSE ""

\* One of the three loops of fillRecipients: i runs from 0 to len(list)-1.
RECURSIVE AddMembers(_, _, _, _)
AddMembers(data, prefix, list, i) ==
    IF i < Len(list)
    THEN AddMembers(Add(data, prefix \o Itoa(i + 1), list[i + 1]), prefix, list, i + 1)
    ELSE data

\* One counter runs through the three lists instead of one per list.
RECURSIVE AddMembersFrom(_, _, _, _, _)
AddMembersFrom(data, prefix, list, i, base) ==
    IF i < Len(list)
    THEN AddMembersFrom(Add(data, prefix \o Itoa(base + i + 1), list[i + 1]),
                        prefix, list, i + 1, base)
    ELSE data

fillRecipients_GlobalCounter(from, to, cc, bcc, data) ==
    LET d0 == Add(data, "Source", from)
        d1 == AddMembersFrom(d0, "Destination.ToAddresses.member.", to, 0, 0)
        d2 == AddMembersFrom(d1, "Destination.CcAddresses.member.", cc, 0, Len(to))
    IN AddMembersFrom(d2, "Destination.BccAddresses.member.", bcc, 0, Len(to) + Len(cc))

\* The cc loop writes its addresses under the field names of the to list.
fillRecipients_CcAsTo(from, to, cc, bcc, data) ==
    LET d0 == Add(data, "Source", from)
        d1 == AddMembers(d0, "Destination.ToAddresses.member.", to, 0)
        d2 == AddMembers(d1, "Destination.ToAddresses.member.", cc, 0)
    IN AddMembers(d2, "Destination.BccAddresses.member.", bcc, 0)

\* Lines 181-200.
fillRecipients(from, to, cc, bcc, data) ==
    LET d0 == Add(data, "Source", from)
        d1 == IF Len(to) > 0
              THEN AddMembers(d0, "Destination.ToAddresses.member.", to, 0) ELSE d0
        d2 == IF Len(cc) > 0
              THEN AddMembers(d1, "Destination.CcAddresses.member.", cc, 0) ELSE d1
        d3 == IF Len(bcc) > 0
              THEN AddMembers(d2, "Destination.BccAddresses.member.", bcc, 0) ELSE d2
    IN d3

\* The plain text body is sent as the HTML body too.
SendEmailData_WithHtml(c, from, to, cc, bcc, subject, body) ==
    LET d0 == Add(EmptyValues, "Action", "SendEmail")
        d1 == fillRecipients(from, to, cc, bcc, d0)
        d2 == Add(d1, "Message.Subject.Data", subject)
        d3 == Add(d2, "Message.Body.Text.Data", body)
        d4 == Add(d3, "Message.Body.Html.Data", body)
    IN Add(d4, "AWSAccessKeyId", c.AccessKeyID)

\* The to list is numbered from 11, inline, as in the earlier SendEmail.
SendEmailData_ToFromEleven(c, from, to, cc, bcc, subject, body) ==
    LET d0 == Add(EmptyValues, "Action", "SendEmail")
        d1 == Add(d0, "Source", from)
        d2 == AddMembersFrom(d1, "Destination.ToAddresses.member.", to, 0, 10)
        d3 == AddMembers(d2, "Destination.CcAddresses.member.", cc, 0)
        d4 == AddMembers(d3, "Destination.BccAddresses.member.", bcc, 0)
        d5 == Add(d4, "Message.Subject.Data", subject)
        d6 == Add(d5, "Message.Body.Text.Data", body)
    IN Add(d6, "AWSAccessKeyId", c.AccessKeyID)

\* The form SendEmail builds before it calls sesPost (lines 204-211).
SendEmailData(c, from, to, cc, bcc, subject, body) ==
    LET d0 == Add(EmptyValues, "Action", "SendEmail")
        d1 == fillRecipients(from, to, cc, bcc, d0)
        d2 == Add(d1, "Message.Subject.Data", subject)
        d3 == Add(d2, "Message.Body.Text.Data", body)
    IN Add(d3, "AWSAccessKeyId", c.AccessKeyID)

\* The HTML send leaves out the access key field.
SendEmailHTMLData_NoAccessKey(c, from, to, cc, bcc, subject, bodyText, bodyHTML) ==
    LET d0 == Add(EmptyValues, "Action", "SendEmail")
        d1 == fillRecipients(from, to, cc, bcc, d0)
        d2 == Add(d1, "Message.Subject.Data", subject)
        d3 == Add(d2, "Message.Body.Text.Data", bodyText)
    IN Add(d3, "Message.Body.Html.Data", bodyHTML)

\* The form SendEmailHTML builds before it calls sesPost (lines 216-224).
SendEmailHTMLData(c, from, to, cc, bcc, subject, bodyText, bodyHTML) ==
    LET d0 == Add(EmptyValues, "Action", "SendEmail")
        d1 == fillRecipients(from, to, cc, bcc, d0)
        d2 == Add(d1, "Message.Subject.Data", subject)
        d3 == Add(d2, "Message.Body.Text.Data", bodyText)
        d4 == Add(d3, "Message.Body.Html.Data", bodyHTML)
    IN Add(d4, "AWSAccessKeyId", c.AccessKeyID)

\* The raw send is posted under the action of the structured sends.
SendRawEmailData_WrongAction(c, raw) ==
    LET d0 == Add(EmptyValues, "Action", "SendEmail")
        d1 == Add(d0, "RawMessage.Data", EncodeToString(raw))
    IN Add(d1, "AWSAccessKeyId", c.AccessKeyID)

\* The form SendRawEmail builds before it calls sesPost (lines 229-234).
SendRawEmailData(c, raw) ==
    LET d0 == Add(EmptyValues, "Action", "SendRawEmail")
        d1 == Add(d0, "RawMessage.Data", EncodeToString(raw))
    IN Add(d1, "AWSAccessKeyId", c.AccessKeyID)

(***************************************************************************)
(* Strings as byte sequences.  TLC strings can be joined but not taken     *)
(* apart, so the characters of the strings the program handles are looked  *)
(* up: CharsOf[s] is the sequence of one-character strings whose join is   *)
(* s.  Ord gives the ASCII code of a character (the table runs from 32 to  *)
(* 126; the grave accent, code 96, is spelled out).                        *)
(***************************************************************************)
Ascii ==
    << " ", "!", "\"", "#", "$", "%", "&", "'", "(", ")", "*", "+",
       ",", "-", ".", "/", "0", "1", "2", "3", "4", "5", "6", "7",
       "8", "9", ":", ";", "<", "=", ">", "?", "@", "A", "B", "C",
       "D", "E", "F", "G", "H", "I", "J", "K", "L", "M", "N", "O",
       "P", "Q", "R", "S", "T", "U", "V", "W", "X", "Y", "Z", "[",
       "\\", "]", "^", "_", "<grave>", "a", "b", "c", "d", "e", "f", "g",
       "h", "i", "j", "k", "l", "m", "n", "o", "p", "q", "r", "s",
       "t", "u", "v", "w", "x", "y", "z", "{", "|", "}", "~" >>

Ord == [c \in { Ascii[i] : i \in 1..Len(Ascii) } |-> 31 + (CHOOSE i \in 1..Len(Ascii) : Ascii[i] = c)]

RECURSIVE ItoaChars(_)
ItoaChars(n) == IF n < 10 THEN <<Digits[n + 1]>>
                ELSE Append(ItoaChars(n \div 10), Digits[(n % 10) + 1])

\* Field names and argument values that occur in the model.
Words ==
    { <<>>,
      <<"A", "c", "t", "i", "o", "n">>,
      <<"S", "o", "u", "r", "c", "e">>,
      <<"S", "e", "n", "d", "E", "m", "a", "i", "l">>,
      <<"S", "e", "n", "d", "R", "a", "w", "E", "m", "a", "i", "l">>,
      <<"M", "e", "s", "s", "a", "g", "e", ".", "S", "u", "b", "j", "e", "c", "t", ".", "D", "a", "t", "a">>,
      <<"M", "e", "s", "s", "a", "g", "e", ".", "B", "o", "d", "y", ".", "T", "e", "x", "t", ".", "D", "a", "t", "a">>,
      <<"M", "e", "s", "s", "a", "g", "e", ".", "B", "o", "d", "y", ".", "H", "t", "m", "l", ".", "D", "a", "t", "a">>,
      <<"A", "W", "S", "A", "c", "c", "e", "s", "s", "K", "e", "y", "I", "d">>,
      <<"R", "a", "w", "M", "e", "s", "s", "a", "g", "e", ".", "D", "a", "t", "a">>,
      <<"a", "@", "x", ".", "c", "o", "m">>,
      <<"b", "@", "x", ".", "c", "o", "m">>,
      <<"c", "@", "x", ".", "c", "o", "m">>,
      <<"a", "m", "a", "z", "o", "n", " ", "S", "E", "S", " ", "t", "e", "x", "t", " ", "t", "e", "s", "t">>,
      <<"a", "m", "a", "z", "o", "n", " ", "S", "E", "S", " ", "h", "t", "m", "l", " ", "t", "e", "s", "t">>,
      <<"T", "h", "i", "s", " ", "i", "s", " ", "a", "n", " ", "e", "x", "a", "m", "p", "l", "e", " ", "e", "m", "a", "i", "l", " ", "b", "o", "d", "y">>,
      <<"<", "p", ">", "T", "h", "i", "s", " ", "i", "s", " ", "a", "n", " ", "e", "x", "a", "m", "p", "l", "e", " ", "e", "m", "a", "i", "l", " ", "b", "o", "d", "y", "<", "/", "p", ">">>,
      <<"A", "K", "I", "D">> }

MemberPrefixes ==
    { <<"D", "e", "s", "t", "i", "n", "a", "t", "i", "o", "n", ".", "T", "o", "A", "d", "d", "r", "e", "s", "s", "e", "s", ".", "m", "e", "m", "b", "e", "r", ".">>,
      <<"D", "e", "s", "t", "i", "n", "a", "t", "i", "o", "n", ".", "C", "c", "A", "d", "d", "r", "e", "s", "s", "e", "s", ".", "m", "e", "m", "b", "e", "r", ".">>,
      <<"D", "e", "s", "t", "i", "n", "a", "t", "i", "o", "n", ".", "B", "c", "c", "A", "d", "d", "r", "e", "s", "s", "e", "s", ".", "m", "e", "m", "b", "e", "r", ".">> }

\* Highest list position a field name can carry in the model; a list
\* numbered from 11 carries positions up to MaxRecipients + 10.
MaxIndex == IF MaxRecipients + 10 > MaxLongList THEN MaxRecipients + 10 ELSE MaxLongList

KnownChars ==
    Words
    \cup { p \o ItoaChars(i) : p \in MemberPrefixes, i \in 1..MaxIndex }
    \cup { EncodeChars(raw) : raw \in RawMessages }

CharsOf == [s \in { JoinChars(cs) : cs \in KnownChars } |->
                CHOOSE cs \in KnownChars : JoinChars(cs) = s]

(***************************************************************************)
(* url.QueryEscape and url.Values.Encode.                                  *)
(***************************************************************************)
upperhex == <<"0", "1", "2", "3", "4", "5", "6", "7", "8", "9", "A", "B", "C", "D", "E", "F">>

IsAlnum(c) ==
    \/ Ord[c] >= 48 /\ Ord[c] <= 57      \* 0-9
    \/ Ord[c] >= 65 /\ Ord[c] <= 90      \* A-Z
    \/ Ord[c] >= 97 /\ Ord[c] <= 122     \* a-z

\* url.shouldEscape(c, encodeQueryComponent): unreserved characters pass,
\* every other byte is escaped.
shouldEscape(c) == ~(IsAlnum(c) \/ c \in {"-", "_", ".", "~"})

\* url.escape for one byte: ' ' becomes '+', an escaped byte %XX.
escapeChar(c) ==
    IF c = " " THEN "+"
    ELSE IF shouldEscape(c)
    THEN "%" \o upperhex[(Ord[c] \div 16) + 1] \o upperhex[(Ord[c] % 16) + 1]
    ELSE c

RECURSIVE escapeChars(_)
escapeChars(cs) == IF Len(cs) = 0 THEN "" ELSE escapeChar(cs[1]) \o escapeChars(Tail(cs))

QueryEscape(s) == escapeChars(CharsOf[s])

\* Go's < on strings: byte-wise lexicographic.
RECURSIVE CharsLess(_, _)
CharsLess(x, y) ==
    IF Len(y) = 0 THEN FALSE
    ELSE IF Len(x) = 0 THEN TRUE
    ELSE IF Ord[x[1]] < Ord[y[1]] THEN TRUE
    ELSE IF Ord[x[1]] > Ord[y[1]] THEN FALSE
    ELSE CharsLess(Tail(x), Tail(y))

\* Shorter strings first, byte order among strings of one length.
StringLess_ShortFirst(a, b) ==
    \/ Len(a) < Len(b)
    \/ Len(a) = Len(b) /\ CharsLess(CharsOf[a], CharsOf[b])

StringLess(a, b) == CharsLess(CharsOf[a], CharsOf[b])

\* sort.Strings, as an insertion sort.
InsertSorted(sorted, k) ==
    LET n == Cardinality({ i \in 1..Len(sorted) : ~StringLess(k, sorted[i]) })
    IN SubSeq(sorted, 1, n) \o <<k>> \o SubSeq(sorted, n + 1, Len(sorted))

RECURSIVE SortStrings(_)
SortStrings(keys) ==
    IF Len(keys) = 0 THEN <<>>
    ELSE InsertSorted(SortStrings(SubSeq(keys, 1, Len(keys) - 1)), keys[Len(keys)])

\* One order in which ranging over the map can yield its keys.
RECURSIVE SetToSeq(_)
SetToSeq(S) ==
    IF S = {} THEN <<>>
    ELSE LET k == CHOOSE k \in S : TRUE IN <<k>> \o SetToSeq(S \ {k})

RangeOrder(v) == SetToSeq(DOMAIN v)

\* The escaped key=value pairs of one key, in the order of its values.
RECURSIVE encodeKey(_, _, _)
encodeKey(k, vs, i) ==
    IF i > Len(vs) THEN <<>>
    ELSE << QueryEscape(k) \o "=" \o QueryEscape(vs[i]) >> \o encodeKey(k, vs, i + 1)

RECURSIVE encodeKeys(_, _)
encodeKeys(v, keys) ==
    IF Len(keys) = 0 THEN <<>>
    ELSE encodeKey(keys[1], v[keys[1]], 1) \o encodeKeys(v, Tail(keys))

RECURSIVE JoinAmp(_)
JoinAmp(ps) ==
    IF Len(ps) = 0 THEN ""
    ELSE IF Len(ps) = 1 THEN ps[1]
    ELSE ps[1] \o "&" \o JoinAmp(Tail(ps))

\* The pairs are written in the order in which the map yields its keys.
Encode_Unsorted(v, iter) == JoinAmp(encodeKeys(v, iter))

\* url.Values.Encode: iter is the order in which ranging over the map
\* yields the keys; they are sorted before the pairs are written.
Encode(v, iter) == JoinAmp(encodeKeys(v, SortStrings(iter)))

(***************************************************************************)
(* time.Time.Format for the three layouts in use.                          *)
(***************************************************************************)
shortDayNames == <<"Sun", "Mon", "Tue", "Wed", "Thu", "Fri", "Sat">>
shortMonthNames == <<"Jan", "Feb", "Mar", "Apr", "May", "Jun",
                     "Jul", "Aug", "Sep", "Oct", "Nov", "Dec">>

\* Two digits, zero padded ("02", "15", "04", "05").
Pad2(n) == IF n < 10 THEN "0" \o Itoa(n) ELSE Itoa(n)

\* now.Format("Mon, 02 Jan 2006 15:04:05 -0700") for a UTC time.
FormatDateHeader(t) ==
    shortDayNames[t.weekday + 1] \o ", " \o Pad2(t.day) \o " " \o shortMonthNames[t.month]
        \o " " \o Itoa(t.year) \o " "
        \o Pad2(t.hour) \o ":" \o Pad2(t.minute) \o ":" \o Pad2(t.second) \o " +0000"

\* The signer's short time format, "20060102".
FormatShortTime(t) == Itoa(t.year) \o Pad2(t.month) \o Pad2(t.day)

\* The signer's time format, "20060102T150405Z".
FormatTime(t) ==
    FormatShortTime(t) \o "T" \o Pad2(t.hour) \o Pad2(t.minute) \o Pad2(t.second) \o "Z"

(***************************************************************************)
(* The SigV4 signer called by sigv4: awssigner.Signer.Sign(req, body,      *)
(* service, region, signTime) with static credentials.                     *)
(***************************************************************************)

\* Names of the signed headers: the headers set on the request, host and
\* x-amz-date, lower case, sorted, joined by ';'.
SignedHeaders(r) ==
    (IF r.ContentType # "" THEN "content-type;" ELSE "")
        \o (IF r.Date # "" THEN "date;" ELSE "")
        \o "host;x-amz-date"

\* The signature is an HMAC-SHA256 chain over the secret, the credential
\* scope, the signed headers and the hash of the payload; it is kept as
\* the term of its inputs.
Signature(secret, scope, amzDate, r, payload) ==
    "HMAC-SHA256(" \o secret \o "," \o scope \o "," \o amzDate \o "," \o r.Method \o ","
        \o r.URL \o "," \o SignedHeaders(r) \o "," \o r.ContentType \o "," \o r.Date \o ","
        \o "SHA256(" \o payload \o "))"

Sign(accessKeyID, secretAccessKey, r, body, service, region, signTime) ==
    IF accessKeyID = "" \/ secretAccessKey = ""
    THEN [err |-> "EmptyStaticCreds: static credentials are empty", req |-> r]
    ELSE LET scope == FormatShortTime(signTime) \o "/" \o region \o "/" \o service
                          \o "/aws4_request"
             amzDate == FormatTime(signTime)
         IN [err |-> Nil,
             req |-> [r EXCEPT
                        !.XAmzDate = amzDate,
                        !.Authorization =
                            "AWS4-HMAC-SHA256 Credential=" \o accessKeyID \o "/" \o scope
                                \o ", SignedHeaders=" \o SignedHeaders(r)
                                \o ", Signature="
                                \o Signature(secretAccessKey, scope, amzDate, r, body),
                        !.Body = body,
                        !.SignedPayload = body,
                        !.SignedTime = signTime]]

(***************************************************************************)
(* sesPost, first half: build and sign the request (lines 245-263).        *)
(***************************************************************************)

\* http.NewRequestWithContext(ctx, POST, c.Endpoint, nil): fails when the
\* endpoint does not parse as a URL; the request has no body.
NewRequestWithContext(endpoint) ==
    IF endpoint = BadEndpoint
    THEN [err |-> "parse \"" \o endpoint \o "\": missing protocol scheme", req |-> NoReq]
    ELSE [err |-> Nil, req |-> [NoReq EXCEPT !.Method = "POST", !.URL = endpoint]]

\* Earlier copy of sigv4 (lines 95-99): the signer's error is dropped.
sigv4_ErrorDropped(c, r, body, timestamp) ==
    [Sign(c.AccessKeyID, c.SecretAccessKey, r, body, "email", c.Region, timestamp)
        EXCEPT !.err = Nil]

\* The region and the service change places in the call of the signer.
sigv4_ScopeSwapped(c, r, body, timestamp) ==
    Sign(c.AccessKeyID, c.SecretAccessKey, r, body, c.Region, "email", timestamp)

\* sigv4 (lines 238-242): signs for service "email" in c.Region with the
\* static credentials of the Config and returns the signer's error.
sigv4(c, r, body, timestamp) ==
    Sign(c.AccessKeyID, c.SecretAccessKey, r, body, "email", c.Region, timestamp)

\* Proceeds to the transport although signing failed.
sesPostBegin_SignErrIgnored(c, data, now, iter) ==
    LET nr == NewRequestWithContext(c.Endpoint)
    IN IF nr.err # Nil
       THEN [err |-> nr.err, req |-> NoReq, do |-> FALSE]
       ELSE LET r == [nr.req EXCEPT !.ContentType = "application/x-www-form-urlencoded",
                                    !.Date = FormatDateHeader(now)]
                sg == sigv4(c, r, Encode(data, iter), now)
            IN [err |-> Nil, req |-> sg.req, do |-> TRUE]

\* The request is created with the form as body and the signer is given
\* no payload and told to leave the body alone.
sesPostBegin_UnsignedBody(c, data, now, iter) ==
    LET nr == NewRequestWithContext(c.Endpoint)
    IN IF nr.err # Nil
       THEN [err |-> nr.err, req |-> NoReq, do |-> FALSE]
       ELSE LET r == [nr.req EXCEPT !.ContentType = "application/x-www-form-urlencoded",
                                    !.Date = FormatDateHeader(now)]
                sg == sigv4(c, r, "", now)
            IN IF sg.err # Nil
               THEN [err |-> sg.err, req |-> NoReq, do |-> FALSE]
               ELSE [err |-> Nil, req |-> [sg.req EXCEPT !.Body = Encode(data, iter)],
                     do |-> TRUE]

\* The Date header is taken from a second reading of the clock.
sesPostBegin_SecondClock(c, data, now, iter) ==
    LET nr == NewRequestWithContext(c.Endpoint)
        later == CHOOSE t \in Times : t # now
    IN IF nr.err # Nil
       THEN [err |-> nr.err, req |-> NoReq, do |-> FALSE]
       ELSE LET r == [nr.req EXCEPT !.ContentType = "application/x-www-form-urlencoded",
                                    !.Date = FormatDateHeader(later)]
                sg == sigv4(c, r, Encode(data, iter), now)
            IN IF sg.err # Nil
               THEN [err |-> sg.err, req |-> NoReq, do |-> FALSE]
               ELSE [err |-> Nil, req |-> sg.req, do |-> TRUE]

\* Lines 245-263: the request to hand to the transport (do = TRUE), or the
\* error returned before any transport call (do = FALSE).  now is what
\* time.Now().UTC() returns, iter the order in which data.Encode() gets the
\* keys from the map.
sesPostBegin(c, data, now, iter) ==
    LET nr == NewRequestWithContext(c.Endpoint)
    IN IF nr.err # Nil
       THEN [err |-> nr.err, req |-> NoReq, do |-> FALSE]
       ELSE LET r == [nr.req EXCEPT !.ContentType = "application/x-www-form-urlencoded",
                                    !.Date = FormatDateHeader(now)]
                sg == sigv4(c, r, Encode(data, iter), now)
            IN IF sg.err # Nil
               THEN [err |-> sg.err, req |-> NoReq, do |-> FALSE]
               ELSE [err |-> Nil, req |-> sg.req, do |-> TRUE]

(***************************************************************************)
(* sesPost, second half: map the transport outcome (lines 265-289).        *)
(***************************************************************************)

\* fmt.Errorf("error code %d. response: %s", resp.StatusCode, resultBody)
StatusError(statusCode, resultBody) ==
    "error code " \o Itoa(statusCode) \o ". response: " \o resultBody

\* Every 2xx status is taken as success.
sesPostEnd_Any2xx(out) ==
    IF out.err # Nil
    THEN [result |-> "", err |-> out.err, reads |-> 0, closed |-> FALSE]
    ELSE IF out.readErr # Nil
    THEN [result |-> "", err |-> out.readErr, reads |-> 1, closed |-> FALSE]
    ELSE IF out.StatusCode < 200 \/ out.StatusCode > 299
    THEN [result |-> "", err |-> StatusError(out.StatusCode, out.Body),
          reads |-> 1, closed |-> TRUE]
    ELSE [result |-> out.Body, err |-> Nil, reads |-> 1, closed |-> TRUE]

\* The success path returns before the body is kept.
sesPostEnd_BodyDropped(out) ==
    IF out.err # Nil
    THEN [result |-> "", err |-> out.err, reads |-> 0, closed |-> FALSE]
    ELSE IF out.readErr # Nil
    THEN [result |-> "", err |-> out.readErr, reads |-> 1, closed |-> FALSE]
    ELSE IF out.StatusCode # StatusOK
    THEN [result |-> "", err |-> StatusError(out.StatusCode, out.Body),
          reads |-> 1, closed |-> TRUE]
    ELSE [result |-> "", err |-> Nil, reads |-> 1, closed |-> TRUE]

\* The transport error is wrapped before it is returned.
sesPostEnd_ErrWrapped(out) ==
    IF out.err # Nil
    THEN [result |-> "", err |-> "ses: " \o out.err, reads |-> 0, closed |-> FALSE]
    ELSE IF out.readErr # Nil
    THEN [result |-> "", err |-> out.readErr, reads |-> 1, closed |-> FALSE]
    ELSE IF out.StatusCode # StatusOK
    THEN [result |-> "", err |-> StatusError(out.StatusCode, out.Body),
          reads |-> 1, closed |-> TRUE]
    ELSE [result |-> out.Body, err |-> Nil, reads |-> 1, closed |-> TRUE]

\* The error of the read is discarded and whatever was read is used.
sesPostEnd_ReadErrIgnored(out) ==
    IF out.err # Nil
    THEN [result |-> "", err |-> out.err, reads |-> 0, closed |-> FALSE]
    ELSE IF out.StatusCode # StatusOK
    THEN [result |-> "", err |-> StatusError(out.StatusCode, out.Body),
          reads |-> 1, closed |-> TRUE]
    ELSE [result |-> out.Body, err |-> Nil, reads |-> 1, closed |-> TRUE]

\* Lines 265-289.  out is what HTTPClient.Do and the read of the response
\* body produce.  reads counts the reads of the response body; closed
\* tells whether resp.Body.Close ran before the return: the deferred close
\* is registered at line 278, after the return of a failed read at line 274.
sesPostEnd(out) ==
    IF out.err # Nil
    THEN [result |-> "", err |-> out.err, reads |-> 0, closed |-> FALSE]
    ELSE IF out.readErr # Nil
    THEN [result |-> "", err |-> out.readErr, reads |-> 1, closed |-> FALSE]
    ELSE IF out.StatusCode # StatusOK
    THEN [result |-> "", err |-> StatusError(out.StatusCode, out.Body),
          reads |-> 1, closed |-> TRUE]
    ELSE [result |-> out.Body, err |-> Nil, reads |-> 1, closed |-> TRUE]

(***************************************************************************)
(* State.                                                                  *)
(***************************************************************************)
VARIABLES
    cfg,         \* the Config the calls are made on
    pc,          \* "idle", "do" (inside HTTPClient.Do), "read" (inside
                 \* ioutil.ReadAll), "returned" or "panic"
    op,          \* the send operation of the current call
    args,        \* its arguments
    data,        \* the url.Values it built
    req,         \* the request handed to the transport
    doCalls,     \* calls of HTTPClient.Do made by the current call
    outcome,     \* what the transport answered
    bodyReads,   \* reads of the response body
    bodyClosed,  \* resp.Body.Close has run
    result,      \* returned string
    err,         \* returned error
    keyOrder,    \* order in which data.Encode() got the keys from the map
    prev,        \* the previous call that reached the transport (history)
    calls        \* the calls of concurrent callers on the same Config

vars == <<cfg, pc, op, args, data, req, doCalls, outcome, bodyReads, bodyClosed, result, err,
          keyOrder, prev, calls>>

NoArgs == [from |-> "", to |-> <<>>, cc |-> <<>>, bcc |-> <<>>, subject |-> "",
           body |-> "", bodyHTML |-> "", raw |-> <<>>]

\* What is remembered of the previous call that reached the transport: its
\* operation and arguments, the body and the time of its request, and
\* whether ranging over its map happened to yield the keys in sorted order.
NoPrev == [op |-> "none", args |-> NoArgs, body |-> "", time |-> NoTime, inOrder |-> FALSE]

Callers == 1..NumCallers
NoCall == [pc |-> "idle", op |-> "none", args |-> NoArgs, data |-> EmptyValues,
           req |-> NoReq, resp |-> NoOutcome, result |-> "", err |-> Nil]

Init ==
    /\ cfg \in Configs
    /\ keyOrder = <<>>
    /\ prev = NoPrev
    /\ calls = [p \in Callers |-> NoCall]
    /\ pc = "idle"
    /\ op = "none"
    /\ args = NoArgs
    /\ data = EmptyValues
    /\ req = NoReq
    /\ doCalls = 0
    /\ outcome = NoOutcome
    /\ bodyReads = 0
    /\ bodyClosed = FALSE
    /\ result = ""
    /\ err = Nil

\* A send operation from its entry to the call of HTTPClient.Do, or to its
\* return when the request cannot be built or signed.  The call of Do on a
\* nil HTTPClient (line 267) is a run-time panic: no transport runs and the
\* call does not return.
Call(o, a, d, now, iter) ==
    /\ pc = "idle"
    /\ op' = o
    /\ args' = a
    /\ data' = d
    /\ LET b == sesPostBegin(cfg, d, now, iter)
       IN IF b.do /\ cfg.HTTPClient = Nil
          THEN /\ pc' = "panic"
               /\ req' = b.req
               /\ doCalls' = doCalls
               /\ err' = Nil
          ELSE IF b.do
          THEN /\ pc' = "do"
               /\ req' = b.req
               /\ doCalls' = doCalls + 1
               /\ err' = Nil
          ELSE /\ pc' = "returned"
               /\ req' = NoReq
               /\ doCalls' = doCalls
               /\ err' = b.err
    /\ result' = ""
    /\ keyOrder' = iter
    /\ UNCHANGED <<cfg, outcome, bodyReads, bodyClosed, prev, calls>>

SendEmail ==
    \E from \in Froms, to \in RecipientLists, cc \in RecipientLists, bcc \in RecipientLists,
       subject \in Subjects, body \in TextBodies, now \in Times :
        LET d == SendEmailData(cfg, from, to, cc, bcc, subject, body)
        IN Call("SendEmail",
                [NoArgs EXCEPT !.from = from, !.to = to, !.cc = cc, !.bcc = bcc,
                               !.subject = subject, !.body = body],
                d, now, RangeOrder(d))

SendEmailHTML ==
    \E from \in Froms, to \in RecipientLists, cc \in RecipientLists, bcc \in RecipientLists,
       subject \in Subjects, bodyText \in TextBodies, bodyHTML \in HTMLBodies, now \in Times :
        LET d == SendEmailHTMLData(cfg, from, to, cc, bcc, subject, bodyText, bodyHTML)
        IN Call("SendEmailHTML",
                [NoArgs EXCEPT !.from = from, !.to = to, !.cc = cc, !.bcc = bcc,
                               !.subject = subject, !.body = bodyText, !.bodyHTML = bodyHTML],
                d, now, RangeOrder(d))

SendRawEmail ==
    \E raw \in RawMessages, now \in Times :
        LET d == SendRawEmailData(cfg, raw)
        IN Call("SendRawEmail", [NoArgs EXCEPT !.raw = raw], d, now, RangeOrder(d))

\* A failed transport call is tried once more.
DoReturns_RetryOnError ==
    /\ pc = "do"
    /\ \E h \in DoResults :
        IF h.err # Nil /\ doCalls < 2
        THEN /\ pc' = "do"
             /\ doCalls' = doCalls + 1
             /\ UNCHANGED <<outcome, bodyReads, bodyClosed, result, err>>
        ELSE IF h.err # Nil
        THEN LET e == sesPostEnd(h)
             IN /\ pc' = "returned"
                /\ outcome' = h
                /\ bodyReads' = bodyReads + e.reads
                /\ bodyClosed' = e.closed
                /\ result' = e.result
                /\ err' = e.err
                /\ UNCHANGED doCalls
        ELSE /\ pc' = "read"
             /\ outcome' = h
             /\ UNCHANGED <<doCalls, bodyReads, bodyClosed, result, err>>
    /\ UNCHANGED <<cfg, op, args, data, req, keyOrder, prev, calls>>

\* HTTPClient.Do returns (line 267): with an error sesPost returns it, with
\* a response sesPost goes on to read the body.
DoReturns ==
    /\ pc = "do"
    /\ \E h \in DoResults :
        IF h.err # Nil
        THEN LET e == sesPostEnd(h)
             IN /\ pc' = "returned"
                /\ outcome' = h
                /\ bodyReads' = bodyReads + e.reads
                /\ bodyClosed' = e.closed
                /\ result' = e.result
                /\ err' = e.err
        ELSE /\ pc' = "read"
             /\ outcome' = h
             /\ UNCHANGED <<bodyReads, bodyClosed, result, err>>
    /\ UNCHANGED <<cfg, op, args, data, req, doCalls, keyOrder, prev, calls>>

\* ioutil.ReadAll(resp.Body) returns (line 273) and sesPost runs to its
\* return.
ReadAllReturns ==
    /\ pc = "read"
    /\ \E out \in BodyReads(outcome) :
        LET e == sesPostEnd(out)
        IN /\ outcome' = out
           /\ bodyReads' = bodyReads + e.reads
           /\ bodyClosed' = e.closed
           /\ result' = e.result
           /\ err' = e.err
    /\ pc' = "returned"
    /\ UNCHANGED <<cfg, op, args, data, req, doCalls, keyOrder, prev, calls>>

\* The caller has the result; the next call starts from a clean slate (the
\* package keeps nothing between calls).
ReturnToIdle ==
    /\ pc = "returned"
    /\ pc' = "idle"
    /\ op' = "none"
    /\ args' = NoArgs
    /\ data' = EmptyValues
    /\ req' = NoReq
    /\ doCalls' = 0
    /\ outcome' = NoOutcome
    /\ bodyReads' = 0
    /\ bodyClosed' = FALSE
    /\ result' = ""
    /\ err' = Nil
    /\ keyOrder' = <<>>
    /\ UNCHANGED <<cfg, calls>>

NextCall ==
    /\ ReturnToIdle
    /\ UNCHANGED prev

Next ==
    \/ SendEmail
    \/ SendEmailHTML
    \/ SendRawEmail
    \/ DoReturns
    \/ ReadAllReturns
    \/ NextCall

Spec == Init /\ [][Next]_vars

(***************************************************************************)
(* Properties.                                                             *)
(***************************************************************************)

\* Decimal text of the status codes and list positions the properties name,
\* written out so that they do not rest on Itoa.
StatusText == (200 :> "200") @@ (204 :> "204") @@ (400 :> "400")
IndexText == <<"1", "2", "3", "4", "5", "6", "7", "8", "9", "10", "11", "12">>

Returned == pc = "returned"
GotResponse == Returned /\ outcome.hasResp
Structured == op \in {"SendEmail", "SendEmailHTML"}

\* The call ended in the panic of a call of Do on a nil HTTPClient.
Panicked == pc = "panic"

\* The request could not be built or could not be signed.
ConstructionFails ==
    \/ cfg.Endpoint = BadEndpoint
    \/ cfg.AccessKeyID = ""
    \/ cfg.SecretAccessKey = ""

\* C1: a response with a status other than 200 (other 2xx included) and a
\* readable body makes the call return a non-nil error that carries the
\* status code and the response body, and an empty result.
C1_NonOKStatusIsError ==
    (GotResponse /\ outcome.StatusCode # 200 /\ outcome.readErr = Nil) =>
        /\ err # Nil
        /\ err = "error code " \o StatusText[outcome.StatusCode]
                     \o ". response: " \o outcome.Body
        /\ result = ""

C1_Witness ==
    /\ GotResponse
    /\ outcome.StatusCode = 204
    /\ outcome.readErr = Nil
    /\ outcome.Body = "{\"error\":\"message failed\"}"
    /\ err = "error code 204. response: {\"error\":\"message failed\"}"

\* C2 as stated: a response with status 200 makes the call return a nil
\* error and the full response body as result.
C2_Status200IsSuccess ==
    (GotResponse /\ outcome.StatusCode = 200) =>
        (err = Nil /\ result = outcome.Body)

\* C2 amended: a response with status 200 whose body is read without error
\* makes the call return a nil error and the full response body, unchanged.
C2_Status200ReadableIsSuccess ==
    (GotResponse /\ outcome.StatusCode = 200 /\ outcome.readErr = Nil) =>
        (err = Nil /\ result = outcome.Body)

C2_Witness ==
    /\ GotResponse
    /\ outcome.StatusCode = 200
    /\ outcome.readErr = Nil
    /\ result = "<SendEmailResponse>ok</SendEmailResponse>"
    /\ err = Nil

\* C3: whenever the call returns after a transport response, the response
\* body has been closed, also when reading it failed or the status is not
\* 200.
C3_BodyClosedOnEveryExit ==
    GotResponse => bodyClosed

\* C4: a response with a status other than 200 makes the call fail with an
\* error that carries the status code, also when reading the body failed
\* (whatever part of the body the error then shows).
C4_StatusErrorDespiteReadFailure ==
    (GotResponse /\ outcome.StatusCode # 200) =>
        err \in { "error code " \o StatusText[outcome.StatusCode] \o ". response: " \o b :
                    b \in ResponseBodies \cup {""} }

\* C5 as stated: every send call makes exactly one call of HTTPClient.Do.
C5_ExactlyOneDo ==
    Returned => doCalls = 1

\* C5 amended: a send call makes at most one call of HTTPClient.Do: exactly
\* one when the request is built and signed without error and the Config
\* has an HTTPClient, none when building or signing fails, and none when the
\* HTTPClient is nil, where the call panics instead of returning.
C5_AtMostOneDo ==
    /\ doCalls <= 1
    /\ Returned => (doCalls = IF ConstructionFails THEN 0 ELSE 1)
    /\ Returned /\ ~ConstructionFails => cfg.HTTPClient # Nil
    /\ Panicked => (doCalls = 0 /\ cfg.HTTPClient = Nil /\ ~ConstructionFails)

C5_Witness ==
    /\ Returned
    /\ ~ConstructionFails
    /\ doCalls = 1
    /\ outcome # NoOutcome

\* C6: when HTTPClient.Do returns an error, the call returns that error
\* unchanged and an empty result, has called Do once and has not read a
\* response body.
C6_TransportErrorUnchanged ==
    (Returned /\ outcome.err # Nil) =>
        /\ err = outcome.err
        /\ result = ""
        /\ doCalls = 1
        /\ bodyReads = 0

C6_Witness ==
    /\ Returned
    /\ outcome.err = "dial tcp: connection refused"
    /\ err = "dial tcp: connection refused"
    /\ doCalls = 1

\* C7: when building the request fails (malformed endpoint) or signing it
\* fails, HTTPClient.Do is never invoked and the call returns an error.
C7_ConstructionErrorBeforeDo ==
    ConstructionFails =>
        /\ doCalls = 0
        /\ pc # "do"
        /\ req = NoReq
        /\ Returned => (err # Nil /\ result = "" /\ ~outcome.hasResp)

C7_Witness ==
    /\ Returned
    /\ cfg.Endpoint = GoodEndpoint
    /\ cfg.AccessKeyID = ""
    /\ err = "EmptyStaticCreds: static credentials are empty"
    /\ doCalls = 0

\* C8: for SendEmail and SendEmailHTML each of the to, cc and bcc lists of
\* length n yields exactly the fields Destination.<Kind>Addresses.member.i
\* for i in 1..n, field i holds the i-th address, the indices of a list do
\* not depend on the other lists, and an empty list yields no field.
Kinds == {"To", "Cc", "Bcc"}
ListOf(kind) == IF kind = "To" THEN args.to ELSE IF kind = "Cc" THEN args.cc ELSE args.bcc
MemberKey(kind, i) == "Destination." \o kind \o "Addresses.member." \o IndexText[i]
FixedFields == {"Action", "Source", "Message.Subject.Data", "Message.Body.Text.Data",
                "Message.Body.Html.Data", "AWSAccessKeyId"}

C8_RecipientFields ==
    Structured =>
        /\ \A kind \in Kinds : \A i \in 1..Len(ListOf(kind)) :
              /\ MemberKey(kind, i) \in DOMAIN data
              /\ data[MemberKey(kind, i)] = <<ListOf(kind)[i]>>
        /\ (DOMAIN data) \ FixedFields =
              UNION { { MemberKey(kind, i) : i \in 1..Len(ListOf(kind)) } : kind \in Kinds }

C8_Witness ==
    /\ op = "SendEmail"
    /\ args.to = <<"c@x.com", "b@x.com">>
    /\ args.cc = <<>>
    /\ args.bcc = <<"c@x.com">>
    /\ data["Destination.ToAddresses.member.2"] = <<"b@x.com">>
    /\ data["Destination.BccAddresses.member.1"] = <<"c@x.com">>
    /\ "Destination.CcAddresses.member.1" \notin DOMAIN data

\* C9: the form always has an Action field: SendEmail for SendEmail and
\* SendEmailHTML, SendRawEmail for SendRawEmail.
C9_ActionField ==
    (op # "none") =>
        /\ "Action" \in DOMAIN data
        /\ data["Action"] = << IF op = "SendRawEmail" THEN "SendRawEmail" ELSE "SendEmail" >>

C9_Witness ==
    /\ op = "SendRawEmail"
    /\ Len(args.raw) > 0
    /\ Get(data, "Action") = "SendRawEmail"

\* C10: SendEmailHTML sets Message.Body.Text.Data to bodyText and
\* Message.Body.Html.Data to bodyHTML; SendEmail sets Message.Body.Text.Data
\* to body and has no Message.Body.Html.Data field; both set
\* Message.Subject.Data to the subject.
C10_BodyFields ==
    Structured =>
        /\ "Message.Subject.Data" \in DOMAIN data
        /\ data["Message.Subject.Data"] = <<args.subject>>
        /\ "Message.Body.Text.Data" \in DOMAIN data
        /\ data["Message.Body.Text.Data"] = <<args.body>>
        /\ IF op = "SendEmailHTML"
           THEN /\ "Message.Body.Html.Data" \in DOMAIN data
                /\ data["Message.Body.Html.Data"] = <<args.bodyHTML>>
           ELSE "Message.Body.Html.Data" \notin DOMAIN data

C10_Witness ==
    /\ op = "SendEmailHTML"
    /\ Get(data, "Message.Body.Text.Data") = "This is an example email body"
    /\ Get(data, "Message.Body.Html.Data") = "<p>This is an example email body</p>"
    /\ Get(data, "Message.Subject.Data") = "amazon SES text test"

(***************************************************************************)
(* Properties of the form and of the signed request.                       *)
(***************************************************************************)
Dispatched == pc = "do"

\* base64.StdEncoding.DecodeString on a character sequence: quantum by
\* quantum, padding only in the last one; CorruptInput for anything else.
CorruptInput == <<-1>>
Base64Value == [c \in { encodeStd[i] : i \in 1..64 } |->
                    (CHOOSE i \in 1..64 : encodeStd[i] = c) - 1]

RECURSIVE DecodeString(_)
DecodeString(cs) ==
    IF Len(cs) = 0 THEN <<>>
    ELSE IF Len(cs) < 4 \/ cs[1] \notin DOMAIN Base64Value \/ cs[2] \notin DOMAIN Base64Value
    THEN CorruptInput
    ELSE LET v1 == Base64Value[cs[1]]
             v2 == Base64Value[cs[2]]
             b1 == v1 * 4 + v2 \div 16
         IN IF cs[3] = "=" /\ cs[4] = "="
            THEN IF Len(cs) = 4 THEN <<b1>> ELSE CorruptInput
            ELSE IF cs[3] \notin DOMAIN Base64Value THEN CorruptInput
            ELSE LET v3 == Base64Value[cs[3]]
                     b2 == (v2 % 16) * 16 + v3 \div 4
                 IN IF cs[4] = "="
                    THEN IF Len(cs) = 4 THEN <<b1, b2>> ELSE CorruptInput
                    ELSE IF cs[4] \notin DOMAIN Base64Value THEN CorruptInput
                    ELSE LET b3 == (v3 % 4) * 64 + Base64Value[cs[4]]
                             rest == DecodeString(SubSeq(cs, 5, Len(cs)))
                         IN IF rest = CorruptInput THEN CorruptInput
                            ELSE <<b1, b2, b3>> \o rest

\* C11: for every raw message passed to SendRawEmail, decoding the
\* RawMessage.Data field with padded standard base64 gives back the raw
\* bytes, for every length (0 and lengths not divisible by 3 included).
C11_RawRoundTrip ==
    (op = "SendRawEmail") =>
        /\ "RawMessage.Data" \in DOMAIN data
        /\ Len(data["RawMessage.Data"]) = 1
        /\ data["RawMessage.Data"][1] \in DOMAIN CharsOf
        /\ DecodeString(CharsOf[data["RawMessage.Data"][1]]) = args.raw

C11_Witness ==
    /\ op = "SendRawEmail"
    /\ args.raw = <<255, 0, 77, 255>>
    /\ Get(data, "RawMessage.Data") = "/wBN/w=="

\* C12: the form of each of the three send operations has the field
\* AWSAccessKeyId, whose value is the AccessKeyID of the Config.
C12_AccessKeyField ==
    (op # "none") =>
        /\ "AWSAccessKeyId" \in DOMAIN data
        /\ data["AWSAccessKeyId"] = <<cfg.AccessKeyID>>

C12_Witness ==
    /\ op = "SendEmailHTML"
    /\ cfg.AccessKeyID = "AKID"
    /\ Get(data, "AWSAccessKeyId") = "AKID"

\* The day of each instant of the model and its Date header, written out.
ShortDateText == [t \in Times |-> IF t.year = 2026 THEN "20261029" ELSE "20200209"]
DateHeaderText == [t \in Times |-> IF t.year = 2026 THEN "Thu, 29 Oct 2026 16:31:05 +0000"
                                   ELSE "Sun, 09 Feb 2020 07:04:59 +0000"]

\* C13: the Authorization header of every request handed to the transport
\* is 'AWS4-HMAC-SHA256 Credential=<AccessKeyID>/<yyyymmdd>/<Region>/email/
\* aws4_request, SignedHeaders=content-type;date;host;x-amz-date,
\* Signature=<signature>' with the AccessKeyID and Region of the Config.
C13_AuthorizationHeader ==
    Dispatched =>
        /\ req.SignedTime \in Times
        /\ LET scope == ShortDateText[req.SignedTime] \o "/" \o cfg.Region
                            \o "/email/aws4_request"
           IN req.Authorization =
                "AWS4-HMAC-SHA256 Credential=" \o cfg.AccessKeyID \o "/" \o scope
                    \o ", SignedHeaders=content-type;date;host;x-amz-date, Signature="
                    \o Signature(cfg.SecretAccessKey, scope, req.XAmzDate, req,
                                 req.SignedPayload)

C13_Witness ==
    /\ Dispatched
    /\ op = "SendRawEmail"
    /\ args.raw = <<255, 255>>
    /\ req.SignedTime.year = 2020
    /\ req.Authorization =
         "AWS4-HMAC-SHA256 Credential=AKID/20200209/us-east-1/email/aws4_request, SignedHeaders=content-type;date;host;x-amz-date, Signature="
            \o Signature("secret", "20200209/us-east-1/email/aws4_request", "20200209T070459Z",
                         req, "AWSAccessKeyId=AKID&Action=SendRawEmail&RawMessage.Data=%2F%2F8%3D")

\* C18: the body of every request handed to the transport is the byte
\* sequence the signature was computed over, the URL-encoded form.
C18_BodyIsSignedPayload ==
    Dispatched =>
        /\ req.Body = req.SignedPayload
        /\ req.Body = Encode(data, keyOrder)
        /\ req.Body # ""

C18_Witness ==
    /\ Dispatched
    /\ op = "SendRawEmail"
    /\ args.raw = <<255, 255>>
    /\ req.Body = "AWSAccessKeyId=AKID&Action=SendRawEmail&RawMessage.Data=%2F%2F8%3D"
    /\ req.SignedPayload = req.Body

\* C19: when HTTPClient.Do is invoked the request is a POST to the Endpoint
\* of the Config with Content-Type application/x-www-form-urlencoded, with
\* a Date and an Authorization header, and the Date header is the time that
\* was passed to the signer.
C19_RequestAtDo ==
    (Dispatched \/ Panicked) =>
        /\ req.Method = "POST"
        /\ req.URL = cfg.Endpoint
        /\ req.ContentType = "application/x-www-form-urlencoded"
        /\ req.Authorization # ""
        /\ req.SignedTime \in Times
        /\ req.Date = DateHeaderText[req.SignedTime]

C19_Witness ==
    /\ Dispatched
    /\ req.Method = "POST"
    /\ req.URL = GoodEndpoint
    /\ req.Date = "Thu, 29 Oct 2026 16:31:05 +0000"
    /\ req.XAmzDate = "20261029T163105Z"

\* C20: every field name of the form is unique: every key holds exactly
\* one value.
C20_UniqueFieldNames ==
    \A k \in DOMAIN data : Len(data[k]) = 1

C20_Witness ==
    /\ op = "SendEmailHTML"
    /\ Len(args.to) = 2
    /\ Len(args.cc) = 2
    /\ Len(args.bcc) = 1
    /\ Cardinality(DOMAIN data) = 11

(***************************************************************************)
(* Sends with a long to list: positions with two digits.                   *)
(***************************************************************************)
LongLists ==
    { [i \in 1..n |-> IF i % 2 = 0 THEN "b@x.com" ELSE "c@x.com"] : n \in 0..MaxLongList }

SendEmailLong ==
    \E from \in Froms, to \in LongLists, cc \in SeqsUpTo(Addresses, 1),
       subject \in Subjects, body \in TextBodies, now \in Times :
        LET d == SendEmailData(cfg, from, to, cc, <<>>, subject, body)
        IN Call("SendEmail",
                [NoArgs EXCEPT !.from = from, !.to = to, !.cc = cc,
                               !.subject = subject, !.body = body],
                d, now, RangeOrder(d))

NextLong ==
    \/ SendEmailLong
    \/ DoReturns
    \/ ReadAllReturns
    \/ NextCall

SpecLong == Init /\ [][NextLong]_vars

\* a comes before b in byte order: they agree on n bytes and then a ends
\* or has the smaller byte.
BytesBefore(a, b) ==
    LET x == CharsOf[a]
        y == CharsOf[b]
    IN \E n \in 0..Len(x) :
        /\ n <= Len(y)
        /\ \A m \in 1..n : x[m] = y[m]
        /\ \/ n = Len(x) /\ n < Len(y)
           \/ n < Len(x) /\ n < Len(y) /\ Ord[x[n + 1]] < Ord[y[n + 1]]

Position(ks, k) == CHOOSE i \in 1..Len(ks) : ks[i] = k

\* C14: the request body is the URL-encoded form with its keys in
\* ascending byte order of the key names, whatever the order in which the
\* fields were added; Destination.ToAddresses.member.10 comes before
\* Destination.ToAddresses.member.2.
C14_BodyKeysAscending ==
    Dispatched =>
        LET ks == SortStrings(keyOrder)
        IN /\ Len(ks) = Cardinality(DOMAIN data)
           /\ { ks[i] : i \in 1..Len(ks) } = DOMAIN data
           /\ \A i \in 1..Len(ks) : \A j \in 1..Len(ks) :
                 (i < j) => BytesBefore(ks[i], ks[j])
           /\ req.Body = JoinAmp([i \in 1..Len(ks) |->
                            QueryEscape(ks[i]) \o "=" \o QueryEscape(data[ks[i]][1])])
           /\ ("Destination.ToAddresses.member.10" \in DOMAIN data) =>
                 /\ Position(ks, "Destination.ToAddresses.member.10")
                      < Position(ks, "Destination.ToAddresses.member.2")
                 /\ Position(ks, "Destination.ToAddresses.member.1")
                      < Position(ks, "Destination.ToAddresses.member.10")

C14_Witness ==
    /\ Dispatched
    /\ Len(args.to) = 10
    /\ args.cc = <<>>
    /\ req.Body =
            "AWSAccessKeyId=AKID" \o
            "&Action=SendEmail" \o
            "&Destination.ToAddresses.member.1=c%40x.com" \o
            "&Destination.ToAddresses.member.10=b%40x.com" \o
            "&Destination.ToAddresses.member.2=b%40x.com" \o
            "&Destination.ToAddresses.member.3=c%40x.com" \o
            "&Destination.ToAddresses.member.4=b%40x.com" \o
            "&Destination.ToAddresses.member.5=c%40x.com" \o
            "&Destination.ToAddresses.member.6=b%40x.com" \o
            "&Destination.ToAddresses.member.7=c%40x.com" \o
            "&Destination.ToAddresses.member.8=b%40x.com" \o
            "&Destination.ToAddresses.member.9=c%40x.com" \o
            "&Message.Body.Text.Data=This+is+an+example+email+body" \o
            "&Message.Subject.Data=amazon+SES+text+test" \o
            "&Source=a%40x.com"

(***************************************************************************)
(* Sends under every order in which ranging over the map can yield the     *)
(* keys, with the previous call remembered.                                *)
(***************************************************************************)
RECURSIVE Perms(_)
Perms(S) ==
    IF S = {} THEN { <<>> }
    ELSE UNION { { <<x>> \o q : q \in Perms(S \ {x}) } : x \in S }

DetRawMessages == { <<>>, <<77>> }

SendEmailDet ==
    \E from \in Froms, subject \in Subjects, body \in TextBodies, now \in Times :
        LET d == SendEmailData(cfg, from, <<>>, <<>>, <<>>, subject, body)
        IN \E iter \in Perms(DOMAIN d) :
            Call("SendEmail",
                 [NoArgs EXCEPT !.from = from, !.subject = subject, !.body = body],
                 d, now, iter)

SendRawEmailDet ==
    \E raw \in DetRawMessages, now \in Times :
        LET d == SendRawEmailData(cfg, raw)
        IN \E iter \in Perms(DOMAIN d) :
            Call("SendRawEmail", [NoArgs EXCEPT !.raw = raw], d, now, iter)

NextCallRemember ==
    /\ ReturnToIdle
    /\ prev' = IF req # NoReq
               THEN [op |-> op, args |-> args, body |-> req.Body, time |-> req.SignedTime,
                     inOrder |-> (keyOrder = SortStrings(keyOrder))]
               ELSE prev

NextDet ==
    \/ SendEmailDet
    \/ SendRawEmailDet
    \/ DoReturns
    \/ ReadAllReturns
    \/ NextCallRemember

SpecDet == Init /\ [][NextDet]_vars

\* C15: two sends on the same Config with the same arguments hand the
\* transport byte-identical bodies, whatever the time of each and whatever
\* the order in which the field map yields its keys.
C15_SameArgsSameBody ==
    (Dispatched /\ prev.op = op /\ prev.args = args) => req.Body = prev.body

C15_Witness ==
    /\ Dispatched
    /\ op = "SendEmail"
    /\ prev.op = op
    /\ prev.args = args
    /\ prev.time # req.SignedTime
    /\ prev.inOrder
    /\ keyOrder # SortStrings(keyOrder)
    /\ req.Body = prev.body

(***************************************************************************)
(* Concurrent callers on one Config.  Each call has its own locals; the    *)
(* Config is the only value the calls share.                               *)
(***************************************************************************)
ConcDoResults == { h \in DoResults : h.err # Nil \/ h.StatusCode \in {200, 400} }

ConcOutcomes ==
    { out \in Outcomes :
        \/ out.err # Nil
        \/ out.StatusCode = 200 /\ out.readErr = Nil
              /\ out.Body = "<SendEmailResponse>ok</SendEmailResponse>"
        \/ out.StatusCode = 400 /\ out.readErr = Nil
              /\ out.Body = "{\"error\":\"message failed\"}" }

\* A send operation of caller p from its entry to the call of
\* HTTPClient.Do, to its return when the request cannot be built or signed,
\* or to the panic of a call of Do on a nil HTTPClient.
ConcCall(p, o, a, d, now, iter) ==
    /\ calls[p].pc = "idle"
    /\ LET b == sesPostBegin(cfg, d, now, iter)
       IN calls' = [calls EXCEPT ![p] =
                        [pc |-> IF b.do /\ cfg.HTTPClient = Nil THEN "panic"
                                ELSE IF b.do THEN "do" ELSE "returned",
                         op |-> o, args |-> a, data |-> d,
                         req |-> IF b.do THEN b.req ELSE NoReq,
                         resp |-> NoOutcome,
                         result |-> "", err |-> b.err]]
    /\ UNCHANGED <<cfg, pc, op, args, data, req, doCalls, outcome, bodyReads, bodyClosed,
                   result, err, keyOrder, prev>>

ConcSendEmail(p) ==
    \E from \in Froms, to \in { <<"b@x.com">>, <<"c@x.com">> },
       subject \in Subjects, body \in TextBodies, now \in Times :
        LET d == SendEmailData(cfg, from, to, <<>>, <<>>, subject, body)
        IN ConcCall(p, "SendEmail",
                    [NoArgs EXCEPT !.from = from, !.to = to, !.subject = subject,
                                   !.body = body],
                    d, now, RangeOrder(d))

ConcSendEmailHTML(p) ==
    \E from \in Froms, subject \in Subjects, bodyText \in TextBodies, bodyHTML \in HTMLBodies,
       now \in Times :
        LET to == <<"c@x.com">>
            bcc == <<"b@x.com">>
            d == SendEmailHTMLData(cfg, from, to, <<>>, bcc, subject, bodyText, bodyHTML)
        IN ConcCall(p, "SendEmailHTML",
                    [NoArgs EXCEPT !.from = from, !.to = to, !.bcc = bcc,
                                   !.subject = subject, !.body = bodyText,
                                   !.bodyHTML = bodyHTML],
                    d, now, RangeOrder(d))

ConcSendRawEmail(p) ==
    \E raw \in { <<77>> }, now \in Times :
        LET d == SendRawEmailData(cfg, raw)
        IN ConcCall(p, "SendRawEmail", [NoArgs EXCEPT !.raw = raw], d, now, RangeOrder(d))

\* HTTPClient.Do returns to caller p: with an error its sesPost returns it,
\* with a response its sesPost goes on to read the body.
ConcDoReturns(p) ==
    /\ calls[p].pc = "do"
    /\ \E h \in ConcDoResults :
        IF h.err # Nil
        THEN LET e == sesPostEnd(h)
             IN calls' = [calls EXCEPT ![p].pc = "returned",
                                       ![p].resp = h,
                                       ![p].result = e.result,
                                       ![p].err = e.err]
        ELSE calls' = [calls EXCEPT ![p].pc = "read", ![p].resp = h]
    /\ UNCHANGED <<cfg, pc, op, args, data, req, doCalls, outcome, bodyReads, bodyClosed,
                   result, err, keyOrder, prev>>

\* ioutil.ReadAll returns to caller p and its sesPost runs to its return.
ConcReadAllReturns(p) ==
    /\ calls[p].pc = "read"
    /\ \E out \in BodyReads(calls[p].resp) \cap ConcOutcomes :
        LET e == sesPostEnd(out)
        IN calls' = [calls EXCEPT ![p].pc = "returned",
                                  ![p].resp = out,
                                  ![p].result = e.result,
                                  ![p].err = e.err]
    /\ UNCHANGED <<cfg, pc, op, args, data, req, doCalls, outcome, bodyReads, bodyClosed,
                   result, err, keyOrder, prev>>

\* Caller p has its result; its locals are gone.
ConcReturn(p) ==
    /\ calls[p].pc = "returned"
    /\ calls' = [calls EXCEPT ![p] = NoCall]
    /\ UNCHANGED <<cfg, pc, op, args, data, req, doCalls, outcome, bodyReads, bodyClosed,
                   result, err, keyOrder, prev>>

NextConc ==
    \E p \in Callers :
        \/ ConcSendEmail(p)
        \/ ConcSendEmailHTML(p)
        \/ ConcSendRawEmail(p)
        \/ ConcDoReturns(p)
        \/ ConcReadAllReturns(p)
        \/ ConcReturn(p)

SpecConc == Init /\ [][NextConc]_vars

\* The fields a call with operation o and arguments a has on Config c.
MemberFields(kind, list) ==
    [k \in { MemberKey(kind, i) : i \in 1..Len(list) } |->
        << list[CHOOSE i \in 1..Len(list) : MemberKey(kind, i) = k] >>]

OwnFields(o, a, c) ==
    IF o = "SendRawEmail"
    THEN ("Action" :> <<"SendRawEmail">>) @@ ("AWSAccessKeyId" :> <<c.AccessKeyID>>)
            @@ ("RawMessage.Data" :> <<EncodeToString(a.raw)>>)
    ELSE ("Action" :> <<"SendEmail">>) @@ ("AWSAccessKeyId" :> <<c.AccessKeyID>>)
            @@ ("Source" :> <<a.from>>)
            @@ ("Message.Subject.Data" :> <<a.subject>>)
            @@ ("Message.Body.Text.Data" :> <<a.body>>)
            @@ (IF o = "SendEmailHTML"
                THEN ("Message.Body.Html.Data" :> <<a.bodyHTML>>) ELSE [k \in {} |-> <<>>])
            @@ MemberFields("To", a.to) @@ MemberFields("Cc", a.cc)
            @@ MemberFields("Bcc", a.bcc)

\* C16: under every interleaving of concurrent send calls on one Config,
\* no step changes the Config, and the form and the request body of each
\* call hold the fields of that call's own arguments and nothing else.
C16_CallsIndependent ==
    /\ [][cfg' = cfg]_vars
    /\ [](\A p \in Callers :
            (calls[p].op # "none") =>
                /\ calls[p].data = OwnFields(calls[p].op, calls[p].args, cfg)
                /\ (calls[p].pc = "do") =>
                      LET own == OwnFields(calls[p].op, calls[p].args, cfg)
                      IN calls[p].req.Body = Encode(own, RangeOrder(own)))

C16_Witness ==
    /\ calls[1].pc = "do"
    /\ calls[2].pc = "do"
    /\ calls[1].op = "SendEmail"
    /\ calls[1].args.to = <<"b@x.com">>
    /\ calls[2].op = "SendEmailHTML"
    /\ "Destination.BccAddresses.member.1" \in DOMAIN calls[2].data
    /\ "Destination.BccAddresses.member.1" \notin DOMAIN calls[1].data

(***************************************************************************)
(* Termination: the transport answers every call it is given and the body  *)
(* of every response it gives ends or fails.                               *)
(***************************************************************************)
LiveSpec == Spec /\ WF_vars(DoReturns) /\ WF_vars(ReadAllReturns)

\* C17: every send call returns once the transport's Do has returned or
\* failed and the read of the response body has ended: a call goes from its
\* entry straight to its end or into the one transport call, from the
\* transport call to its return or to the read of the body, and from the
\* read of the body to its return; the waits end in a return.
C17_CallReturns ==
    /\ Dispatched ~> Returned
    /\ (pc = "read") ~> Returned
    /\ [][(pc = "idle") => (pc' \in {"do", "returned", "panic"})]_vars
    /\ [][(pc = "do") => (pc' \in {"read", "returned"})]_vars
    /\ [][(pc = "read") => (pc' = "returned")]_vars

C17_Witness ==
    /\ Returned
    /\ doCalls = 1
    /\ outcome.hasResp
    /\ outcome.readErr = "unexpected EOF"


(***************************************************************************)
(* The two outcomes of a call.                                             *)
(***************************************************************************)

\* The call returned without error what a status-200 response carried and
\* the read of its body delivered.
ReturnedSuccess ==
    /\ err = Nil
    /\ outcome.hasResp
    /\ outcome.err = Nil
    /\ outcome.StatusCode = 200
    /\ outcome.readErr = Nil
    /\ result = outcome.Body

\* The call returned an error and no result.
ReturnedFailure ==
    /\ err # Nil
    /\ result = ""

\* C21: every send call ends with exactly one of two outcomes: a nil error
\* with the body of a status-200 response, or a non-nil error with the empty
\* string; a non-empty result never comes with an error, and a response
\* whose body read failed is never returned as a success.
C21_EveryCallTwoOutcomes ==
    (Returned \/ Panicked) =>
        /\ ReturnedSuccess \/ ReturnedFailure
        /\ ~(ReturnedSuccess /\ ReturnedFailure)
        /\ (result # "" => err = Nil)
        /\ (outcome.hasResp /\ outcome.readErr # Nil => err # Nil /\ result = "")

\* The calls that return do have one of the two outcomes.
C21_TwoOutcomes ==
    Returned =>
        /\ ReturnedSuccess \/ ReturnedFailure
        /\ ~(ReturnedSuccess /\ ReturnedFailure)
        /\ (result # "" => err = Nil)
        /\ (outcome.hasResp /\ outcome.readErr # Nil => err # Nil /\ result = "")

\* A status-200 response whose body could not be read in full came back as
\* the read error, with no result.
C21_Witness ==
    /\ Returned
    /\ outcome.hasResp
    /\ outcome.StatusCode = 200
    /\ outcome.Body # ""
    /\ outcome.readErr \in ReadErrors
    /\ err = outcome.readErr
    /\ result = ""


(***************************************************************************)
(* Plain and HTML sends one after the other, with the form of the          *)
(* previous call remembered.                                               *)
(***************************************************************************)
PairFroms == {"a@x.com", "c@x.com"}
PairSubjects == {"amazon SES text test", "amazon SES html test"}
PairRecipients ==
    { [to |-> <<>>, cc |-> <<>>, bcc |-> <<>>],
      [to |-> <<"b@x.com">>, cc |-> <<>>, bcc |-> <<>>],
      [to |-> <<"c@x.com">>, cc |-> <<"b@x.com">>, bcc |-> <<>>],
      [to |-> <<"b@x.com", "c@x.com">>, cc |-> <<"c@x.com">>, bcc |-> <<"b@x.com">>] }

SendEmailPair ==
    \E from \in PairFroms, r \in PairRecipients, subject \in PairSubjects,
       body \in TextBodies, now \in Times :
        LET d == SendEmailData(cfg, from, r.to, r.cc, r.bcc, subject, body)
        IN Call("SendEmail",
                [NoArgs EXCEPT !.from = from, !.to = r.to, !.cc = r.cc, !.bcc = r.bcc,
                               !.subject = subject, !.body = body],
                d, now, RangeOrder(d))

SendEmailHTMLPair ==
    \E from \in PairFroms, r \in PairRecipients, subject \in PairSubjects,
       bodyText \in TextBodies, bodyHTML \in HTMLBodies, now \in Times :
        LET d == SendEmailHTMLData(cfg, from, r.to, r.cc, r.bcc, subject, bodyText, bodyHTML)
        IN Call("SendEmailHTML",
                [NoArgs EXCEPT !.from = from, !.to = r.to, !.cc = r.cc, !.bcc = r.bcc,
                               !.subject = subject, !.body = bodyText, !.bodyHTML = bodyHTML],
                d, now, RangeOrder(d))

\* The caller has the result; the form the call built is remembered next to
\* its operation, its arguments and the body it handed to the transport.
NextCallRememberForm ==
    /\ ReturnToIdle
    /\ prev' = [op |-> op, args |-> args, body |-> req.Body, time |-> req.SignedTime,
                inOrder |-> (keyOrder = SortStrings(keyOrder)), data |-> data]

NextPair ==
    \/ SendEmailPair
    \/ SendEmailHTMLPair
    \/ DoReturns
    \/ ReadAllReturns
    \/ NextCallRememberForm

SpecPair == Init /\ [][NextPair]_vars

Restrict(d, K) == [k \in DOMAIN d \cap K |-> d[k]]
DestinationKeys == { MemberKey(kind, i) : kind \in Kinds, i \in 1..Len(IndexText) }
BodyKeys == {"Message.Body.Text.Data", "Message.Body.Html.Data"}

\* The current call and the remembered one are a plain and an HTML send, in
\* either order, with the same from, to, cc and bcc.
PlainAndHTML ==
    /\ prev.op # "none"
    /\ {op, prev.op} = {"SendEmail", "SendEmailHTML"}
    /\ args.from = prev.args.from
    /\ args.to = prev.args.to
    /\ args.cc = prev.args.cc
    /\ args.bcc = prev.args.bcc

\* C22: for the same from, to, cc and bcc, SendEmail and SendEmailHTML build
\* the same Source field and the same Destination.*Addresses.member.* fields
\* with the same values; every field outside Message.Body.* and the subject
\* is the same in both forms, the subject field too when the subject argument
\* is the same, and the field names of the two forms differ by
\* Message.Body.Html.Data alone.
C22_SameRecipientFields ==
    PlainAndHTML =>
        /\ "Source" \in DOMAIN data
        /\ data["Source"] = prev.data["Source"]
        /\ Restrict(data, DestinationKeys) = Restrict(prev.data, DestinationKeys)
        /\ LET rest == (DOMAIN data \cup DOMAIN prev.data)
                            \ (BodyKeys \cup {"Message.Subject.Data"})
           IN Restrict(data, rest) = Restrict(prev.data, rest)
        /\ (args.subject = prev.args.subject =>
                data["Message.Subject.Data"] = prev.data["Message.Subject.Data"])
        /\ (DOMAIN data \ DOMAIN prev.data) \cup (DOMAIN prev.data \ DOMAIN data)
                = {"Message.Body.Html.Data"}

\* An HTML send reached the transport after a plain send with the same
\* sender, subject and three non-empty lists; the two bodies differ.
C22_Witness ==
    /\ Dispatched
    /\ PlainAndHTML
    /\ op = "SendEmailHTML"
    /\ args.to = <<"b@x.com", "c@x.com">>
    /\ args.cc = <<"c@x.com">>
    /\ args.bcc = <<"b@x.com">>
    /\ args.subject = prev.args.subject
    /\ Restrict(data, DestinationKeys) =
          ("Destination.ToAddresses.member.1" :> <<"b@x.com">>)
          @@ ("Destination.ToAddresses.member.2" :> <<"c@x.com">>)
          @@ ("Destination.CcAddresses.member.1" :> <<"c@x.com">>)
          @@ ("Destination.BccAddresses.member.1" :> <<"b@x.com">>)
    /\ prev.body # ""
    /\ req.Body # prev.body

====
